---- MODULE Spec2Model ----
(***************************************************************************)
(* Crossword CSP solver of src/crossword/generate.py (CrosswordCreator):   *)
(* node consistency, AC-3 and heuristic backtracking search.               *)
(*                                                                         *)
(* Words are tuples of one-letter strings.  Offsets of the overlap table   *)
(* are 0-based as in Python, so letter i of word w is w[i + 1].            *)
(***************************************************************************)
EXTENDS Integers, Sequences, FiniteSets, TLC

VARIABLES
    crossword,      \* self.crossword: [variables, words]
    domainKeys,     \* iteration order of the dict self.domains
    domains,        \* self.domains: variable -> set of words
    entry,          \* the method the caller invoked: "solve" or "ac3"
    pc,             \* position of the running call
    arcs,           \* the `arcs` argument of the ac3 call: [given, list]
    queue,          \* ac3's worklist
    ac3_ret,        \* "pending", "True", "False" or "TypeError"
    assignment,     \* the dict handed through backtrack
    stack,          \* active backtrack frames, innermost last
    ret_consistent, \* value of the last call of consistent
    outcome,        \* how the invoked method ended
    ac3_calls,      \* number of calls of ac3 made so far
    popped          \* ac3's locals: the arc popped last, revise's value on it

vars == <<crossword, domainKeys, domains, entry, pc, arcs, queue, ac3_ret,
          assignment, stack, ret_consistent, outcome, ac3_calls, popped>>

-----------------------------------------------------------------------------
(* Bounds of the explored inputs *)

MaxVars == 3

MaxWords == 3

\* Most calls of ac3 a caller makes in a row
MaxAc3Calls == 2

-----------------------------------------------------------------------------
(* Structure model (crossword.py): variables, overlaps, neighbors *)

ACROSS == "across"

DOWN == "down"

Variable(i, j, direction, length) ==
    [i |-> i, j |-> j, direction |-> direction, length |-> length]

\* Python's None where a variable is expected
None == [i |-> -1, j |-> -1, direction |-> "None", length |-> 0]

\* Python's None in the overlap table
NoOverlap == <<>>

Cells(v) ==
    [k \in 1..v.length |->
        << v.i + (IF v.direction = DOWN THEN k - 1 ELSE 0),
           v.j + (IF v.direction = ACROSS THEN k - 1 ELSE 0) >>]

CellSet(v) == {Cells(v)[k] : k \in 1..v.length}

IndexOf(cells, c) == (CHOOSE k \in 1..Len(cells) : cells[k] = c) - 1

Overlaps(x, y) ==
    LET intersection == CellSet(x) \cap CellSet(y)
    IN  IF intersection = {} THEN NoOverlap
        ELSE LET c == CHOOSE c \in intersection : TRUE
             IN  << IndexOf(Cells(x), c), IndexOf(Cells(y), c) >>

neighbors(var) ==
    {v \in crossword.variables : v # var /\ Overlaps(v, var) # NoOverlap}

\* Slots a grid of three rows and three columns can hold
SlotPool ==
    { Variable(0, 0, ACROSS, 3), Variable(2, 0, ACROSS, 3),
      Variable(0, 0, DOWN, 3),   Variable(0, 2, DOWN, 3),
      Variable(0, 2, DOWN, 2) }

Fillable(vs) == UNION {CellSet(v) : v \in vs}

Before(v) ==
    IF v.direction = DOWN THEN <<v.i - 1, v.j>> ELSE <<v.i, v.j - 1>>

After(v) ==
    IF v.direction = DOWN THEN <<v.i + v.length, v.j>>
    ELSE <<v.i, v.j + v.length>>

\* Every variable is a maximal run of fillable cells of its direction
WellFormed(vs) ==
    \A v \in vs :
        /\ Before(v) \notin Fillable(vs)
        /\ After(v) \notin Fillable(vs)
        /\ \A u \in vs : (u # v /\ u.direction = v.direction)
                            => CellSet(u) \cap CellSet(v) = {}

Structures ==
    {vs \in SUBSET SlotPool : Cardinality(vs) <= MaxVars /\ WellFormed(vs)}

WordPool ==
    { <<"c", "a", "t">>, <<"c", "a", "r">>, <<"d", "o", "g">>,
      <<"t", "a", "g">>, <<"t", "o">>, <<"g", "o">> }

WordLists == {ws \in SUBSET WordPool : Cardinality(ws) <= MaxWords}

\* The orders in which Python may iterate a set
Perms(S) ==
    {s \in [1..Cardinality(S) -> S] :
        \A a, b \in 1..Cardinality(S) : a # b => s[a] # s[b]}

EmptyAssignment == [v \in {} |-> <<>>]

-----------------------------------------------------------------------------
(* CrosswordCreator: propagation *)

\* enforce_node_consistency that removes only the words that are too short
enforce_node_consistency_short ==
    [domain \in DOMAIN domains |->
        {word \in domains[domain] : ~(Len(word) < domain.length)}]

\* The domain of every variable with the words of the wrong length removed
enforce_node_consistency ==
    [domain \in DOMAIN domains |->
        {word \in domains[domain] : ~(Len(word) # domain.length)}]

\* Number of words of y's domain that agree with v1 at the overlap (i, j)
possible_y_words(v1, y, i, j) ==
    Cardinality({v2 \in domains[y] : v1[i + 1] = v2[j + 1]})

\* revise that keeps a word only when every word of y's domain agrees with it
revise_domain_all(x, y) ==
    IF Overlaps(x, y) = NoOverlap THEN domains[x]
    ELSE LET i == Overlaps(x, y)[1]
             j == Overlaps(x, y)[2]
         IN  {v1 \in domains[x] :
                possible_y_words(v1, y, i, j) = Cardinality(domains[y])}

\* revise that stores in x's domain the words of y's domain that a word of
\* x's domain agrees with
revise_domain_from_y(x, y) ==
    IF Overlaps(x, y) = NoOverlap THEN domains[x]
    ELSE LET i == Overlaps(x, y)[1]
             j == Overlaps(x, y)[2]
         IN  {v2 \in domains[y] :
                \E v1 \in domains[x] : v1[i + 1] = v2[j + 1]}

\* The domain of x after revise(x, y)
revise_domain(x, y) ==
    IF Overlaps(x, y) = NoOverlap THEN domains[x]
    ELSE LET i == Overlaps(x, y)[1]
             j == Overlaps(x, y)[2]
         IN  {v1 \in domains[x] : ~(possible_y_words(v1, y, i, j) = 0)}

\* revise that reports a revision whenever x and y overlap
revise_overlap(x, y) == Overlaps(x, y) # NoOverlap

\* The value revise(x, y) returns
revise(x, y) == revise_domain(x, y) # domains[x]

\* ac3's initial queue when `arcs` is None, in the dict's iteration order
all_arcs ==
    LET n == Len(domainKeys)
        pair(k) == << domainKeys[((k - 1) \div n) + 1],
                      domainKeys[((k - 1) % n) + 1] >>
    IN  SelectSeq([k \in 1..(n * n) |-> pair(k)],
                  LAMBDA arc : arc[1] # arc[2])

\* ac3 that appends no arc after a revision
requeued_none(x, y, zs) == SubSeq(zs, 1, 0)

\* ac3 that does not skip y among the neighbors of x
requeued_with_y(x, y, zs) == [k \in 1..Len(zs) |-> <<zs[k], x>>]

\* ac3 that appends (x, z) in place of (z, x)
requeued_reversed(x, y, zs) ==
    LET kept == SelectSeq(zs, LAMBDA z : ~(z = y))
    IN  [k \in 1..Len(kept) |-> <<x, kept[k]>>]

\* The arcs (z, x) ac3 appends after revising x against y, `zs` being the
\* order in which neighbors(x) is iterated
requeued(x, y, zs) ==
    LET kept == SelectSeq(zs, LAMBDA z : ~(z = y))
    IN  [k \in 1..Len(kept) |-> <<kept[k], x>>]

-----------------------------------------------------------------------------
(* CrosswordCreator: search *)

\* assignment_complete that takes an empty assignment for an incomplete one
assignment_complete_nonempty(asg) ==
    /\ Cardinality(DOMAIN asg) > 0
    /\ Cardinality(DOMAIN domains) = Cardinality(DOMAIN asg)

assignment_complete(asg) ==
    Cardinality(DOMAIN domains) = Cardinality(DOMAIN asg)

\* consistent without the search for a repeated word
consistent_no_duplicates(asg) ==
    /\ \A variable \in DOMAIN asg :
            ~(variable.length # Len(asg[variable]))
    /\ \A variable \in DOMAIN asg :
            \A neighbor \in neighbors(variable) :
                neighbor \in DOMAIN asg =>
                    LET i == Overlaps(variable, neighbor)[1]
                        j == Overlaps(variable, neighbor)[2]
                    IN  ~(asg[variable][i + 1] # asg[neighbor][j + 1])

\* consistent without the comparison of overlapping characters
consistent_lengths_only(asg) ==
    /\ \A v \in DOMAIN asg :
            ~(Cardinality({u \in DOMAIN asg : asg[u] = asg[v]}) # 1)
    /\ \A variable \in DOMAIN asg :
            ~(variable.length # Len(asg[variable]))

\* consistent that looks for a repeated word among neighbors only
consistent_neighbor_duplicates(asg) ==
    /\ \A v \in DOMAIN asg :
            ~(Cardinality({u \in (DOMAIN asg) \cap (neighbors(v) \cup {v}) :
                            asg[u] = asg[v]}) # 1)
    /\ \A variable \in DOMAIN asg :
            ~(variable.length # Len(asg[variable]))
    /\ \A variable \in DOMAIN asg :
            \A neighbor \in neighbors(variable) :
                neighbor \in DOMAIN asg =>
                    LET i == Overlaps(variable, neighbor)[1]
                        j == Overlaps(variable, neighbor)[2]
                    IN  ~(asg[variable][i + 1] # asg[neighbor][j + 1])

consistent(asg) ==
    \* no value occurs more than once among the assigned words
    /\ \A v \in DOMAIN asg :
            ~(Cardinality({u \in DOMAIN asg : asg[u] = asg[v]}) # 1)
    \* the length of every word is the length of its variable
    /\ \A variable \in DOMAIN asg :
            ~(variable.length # Len(asg[variable]))
    \* the overlapping characters of assigned neighbors match
    /\ \A variable \in DOMAIN asg :
            \A neighbor \in neighbors(variable) :
                neighbor \in DOMAIN asg =>
                    LET i == Overlaps(variable, neighbor)[1]
                        j == Overlaps(variable, neighbor)[2]
                    IN  ~(asg[variable][i + 1] # asg[neighbor][j + 1])

\* options_before - options_after for one neighbor of var
eliminated(word, var, neighbor) ==
    LET i == Overlaps(var, neighbor)[1]
        j == Overlaps(var, neighbor)[2]
        options_before == Cardinality(domains[neighbor])
        options_after ==
            Cardinality({option \in domains[neighbor] :
                            word[i + 1] # option[j + 1]})
    IN  options_before - options_after

RECURSIVE eliminations(_, _, _, _)
\* The number order_domain_values stores for `word` in values_value
eliminations(word, var, asg, todo) ==
    IF todo = {} THEN 0
    ELSE LET neighbor == CHOOSE n \in todo : TRUE
             rest == eliminations(word, var, asg, todo \ {neighbor})
         IN  IF neighbor \in DOMAIN asg THEN rest
             ELSE eliminated(word, var, neighbor) + rest

RECURSIVE sorted(_, _, _)
\* Python's stable sorted(): `items` in ascending order of key[item], equal
\* keys in their order in `items`; `done` is the sorted prefix
sorted(items, key, done) ==
    IF items = <<>> THEN done
    ELSE LET item == Head(items)
             at == Cardinality({k \in 1..Len(done) :
                                    key[done[k]] <= key[item]})
         IN  sorted(Tail(items), key,
                    SubSeq(done, 1, at) \o <<item>>
                        \o SubSeq(done, at + 1, Len(done)))

\* order_domain_values that leaves out the words with a count of zero
order_domain_values_counted(var, asg, values) ==
    LET values_value ==
            [word \in domains[var] |->
                eliminations(word, var, asg, neighbors(var))]
    IN  sorted(SelectSeq(values, LAMBDA word : values_value[word] > 0),
               values_value, <<>>)

\* `values` is list(self.domains[var])
order_domain_values(var, asg, values) ==
    LET values_value ==
            [word \in domains[var] |->
                eliminations(word, var, asg, neighbors(var))]
    IN  sorted(values, values_value, <<>>)

lowest_start == 999999999

RECURSIVE lowest(_, _, _)
\* The least domain size among possible_variables[k..], starting from l
lowest(possible_variables, k, l) ==
    IF k > Len(possible_variables) THEN l
    ELSE LET n == Cardinality(domains[possible_variables[k]])
         IN  lowest(possible_variables, k + 1, IF n < l THEN n ELSE l)

RECURSIVE most_neighbors(_, _, _, _)
\* The scan of lowest_variables[k..] for a variable with more than n neighbors
most_neighbors(lowest_variables, k, n, var) ==
    IF k > Len(lowest_variables) THEN var
    ELSE LET variable == lowest_variables[k]
             d == Cardinality(neighbors(variable))
         IN  IF d > n
             THEN most_neighbors(lowest_variables, k + 1, d, variable)
             ELSE most_neighbors(lowest_variables, k + 1, n, var)

select_unassigned_variable(asg) ==
    LET possible_variables ==
            SelectSeq(domainKeys, LAMBDA x : x \notin DOMAIN asg)
        l == lowest(possible_variables, 1, lowest_start)
        lowest_variables ==
            SelectSeq(possible_variables,
                      LAMBDA variable : Cardinality(domains[variable]) = l)
    IN  IF Len(lowest_variables) = 1 THEN lowest_variables[1]
        ELSE most_neighbors(lowest_variables, 1, 0, None)

-----------------------------------------------------------------------------
(* The state after CrosswordCreator(crossword), and the calls made on it *)

NoArcs == [given |-> FALSE, list |-> <<>>]

\* x, y before ac3's loop has popped an arc
NoArc == [arc |-> <<>>, revised |-> FALSE]

Init ==
    \E vs \in Structures, ws \in WordLists :
        /\ crossword = [variables |-> vs, words |-> ws]
        /\ domainKeys \in Perms(vs)
        /\ domains = [var \in vs |-> ws]
        /\ entry \in {"solve", "ac3"}
        /\ pc = "enforce_node_consistency"
        /\ arcs = NoArcs
        /\ queue = <<>>
        /\ ac3_ret = "pending"
        /\ assignment = EmptyAssignment
        /\ stack = <<>>
        /\ ret_consistent = "pending"
        /\ outcome = "pending"
        /\ ac3_calls = 0
        /\ popped = NoArc

\* Where control goes when ac3 returns: solve() drops the value and searches
after_ac3 == IF entry = "solve" THEN "backtrack" ELSE "done"

EnforceNodeConsistency ==
    /\ pc = "enforce_node_consistency"
    /\ domains' = enforce_node_consistency
    /\ pc' = "ac3"
    /\ UNCHANGED <<crossword, domainKeys, entry, arcs, queue, ac3_ret,
                   assignment, stack, ret_consistent, outcome,
                   ac3_calls, popped>>

\* ac3() with arcs == None
Ac3CallDefault ==
    /\ pc = "ac3"
    /\ arcs' = NoArcs
    /\ queue' = all_arcs
    /\ pc' = "ac3_loop"
    /\ ac3_calls' = ac3_calls + 1
    /\ UNCHANGED <<crossword, domainKeys, domains, entry, ac3_ret,
                   assignment, stack, ret_consistent, outcome, popped>>

\* The caller of ac3() calls it again right after it returned True
Ac3CallAgain ==
    /\ pc = "done"
    /\ entry = "ac3"
    /\ ac3_ret = "True"
    /\ ac3_calls < MaxAc3Calls
    /\ arcs' = NoArcs
    /\ queue' = all_arcs
    /\ pc' = "ac3_loop"
    /\ ac3_calls' = ac3_calls + 1
    /\ ac3_ret' = "pending"
    /\ outcome' = "pending"
    /\ popped' = NoArc
    /\ UNCHANGED <<crossword, domainKeys, domains, entry, assignment, stack,
                   ret_consistent>>

\* The explicit arc lists a caller passes
ArcArgs == {<<>>, all_arcs}

\* ac3(arcs) with a list: queue is bound to the class deque, so the first
\* append (or len(queue) for an empty list) raises TypeError
Ac3CallArcs ==
    /\ pc = "ac3"
    /\ entry = "ac3"
    /\ \E list \in ArcArgs : arcs' = [given |-> TRUE, list |-> list]
    /\ ac3_ret' = "TypeError"
    /\ outcome' = "TypeError"
    /\ pc' = "done"
    /\ ac3_calls' = ac3_calls + 1
    /\ UNCHANGED <<crossword, domainKeys, domains, entry, queue,
                   assignment, stack, ret_consistent, popped>>

\* One pass of ac3's while loop
Ac3Step ==
    /\ pc = "ac3_loop"
    /\ ~(Len(queue) = 0)
    /\ LET x == Head(queue)[1]
           y == Head(queue)[2]
       IN  /\ popped' = [arc |-> <<x, y>>, revised |-> revise(x, y)]
           /\ IF revise(x, y)
              THEN /\ domains' = [domains EXCEPT ![x] = revise_domain(x, y)]
                   /\ IF Cardinality(domains'[x]) = 0
                      THEN /\ ac3_ret' = "False"
                           /\ queue' = Tail(queue)
                           /\ pc' = after_ac3
                           /\ outcome' = IF entry = "ac3" THEN "False"
                                         ELSE outcome
                      ELSE /\ \E zs \in Perms(neighbors(x)) :
                                  queue' = Tail(queue) \o requeued(x, y, zs)
                           /\ UNCHANGED <<ac3_ret, pc, outcome>>
              ELSE /\ queue' = Tail(queue)
                   /\ UNCHANGED <<domains, ac3_ret, pc, outcome>>
    /\ UNCHANGED <<crossword, domainKeys, entry, arcs, assignment, stack,
                   ret_consistent, ac3_calls>>

Ac3Return ==
    /\ pc = "ac3_loop"
    /\ Len(queue) = 0
    /\ ac3_ret' = "True"
    /\ pc' = after_ac3
    /\ outcome' = IF entry = "ac3" THEN "True" ELSE outcome
    /\ UNCHANGED <<crossword, domainKeys, domains, entry, arcs, queue,
                   assignment, stack, ret_consistent,
                   ac3_calls, popped>>

Top == stack[Len(stack)]

SetTop(frame) == [stack EXCEPT ![Len(stack)] = frame]

\* backtrack without its del: the tentative entry stays
del_nothing(asg, variable) == asg

\* del assignment[variable]
del(asg, variable) == [v \in (DOMAIN asg) \ {variable} |-> asg[v]]

\* assignment[variable] = word
put(asg, variable, word) ==
    [v \in (DOMAIN asg) \cup {variable} |->
        IF v = variable THEN word ELSE asg[v]]

\* backtrack(assignment) up to the choice of its variable
BacktrackEnter ==
    /\ pc = "backtrack"
    /\ IF assignment_complete(assignment)
       THEN /\ outcome' = "assignment"
            /\ stack' = <<>>
            /\ pc' = "done"
       ELSE /\ stack' = Append(stack,
                    [variable |-> select_unassigned_variable(assignment),
                     values |-> <<>>, k |-> 0, entered |-> assignment])
            /\ pc' = "order"
            /\ UNCHANGED outcome
    /\ UNCHANGED <<crossword, domainKeys, domains, entry, arcs, queue,
                   ac3_ret, assignment, ret_consistent,
                   ac3_calls, popped>>

\* The call of order_domain_values; self.domains[None] raises KeyError
BacktrackOrder ==
    /\ pc = "order"
    /\ IF Top.variable \notin DOMAIN domains
       THEN /\ outcome' = "KeyError"
            /\ pc' = "done"
            /\ UNCHANGED stack
       ELSE /\ \E values \in Perms(domains[Top.variable]) :
                   stack' = SetTop([Top EXCEPT !.values =
                       order_domain_values(Top.variable, assignment, values)])
            /\ pc' = "loop"
            /\ UNCHANGED outcome
    /\ UNCHANGED <<crossword, domainKeys, domains, entry, arcs, queue,
                   ac3_ret, assignment, ret_consistent,
                   ac3_calls, popped>>

\* The loop takes the next word: assignment[variable] = word
BacktrackAssign ==
    /\ pc = "loop"
    /\ Top.k < Len(Top.values)
    /\ assignment' = put(assignment, Top.variable, Top.values[Top.k + 1])
    /\ stack' = SetTop([Top EXCEPT !.k = Top.k + 1])
    /\ pc' = "check"
    /\ UNCHANGED <<crossword, domainKeys, domains, entry, arcs, queue,
                   ac3_ret, ret_consistent, outcome,
                   ac3_calls, popped>>

\* if self.consistent(assignment): recurse; else del assignment[variable]
BacktrackCheck ==
    /\ pc = "check"
    /\ IF consistent(assignment)
       THEN /\ ret_consistent' = "True"
            /\ pc' = "backtrack"
            /\ UNCHANGED assignment
       ELSE /\ ret_consistent' = "False"
            /\ assignment' = del(assignment, Top.variable)
            /\ pc' = "loop"
    /\ UNCHANGED <<crossword, domainKeys, domains, entry, arcs, queue,
                   ac3_ret, stack, outcome,
                   ac3_calls, popped>>

\* The loop is over: return None
BacktrackExhausted ==
    /\ pc = "loop"
    /\ Top.k = Len(Top.values)
    /\ stack' = SubSeq(stack, 1, Len(stack) - 1)
    /\ IF Len(stack) = 1
       THEN /\ outcome' = "None"
            /\ pc' = "done"
       ELSE /\ pc' = "returned"
            /\ UNCHANGED outcome
    /\ UNCHANGED <<crossword, domainKeys, domains, entry, arcs, queue,
                   ac3_ret, assignment, ret_consistent,
                   ac3_calls, popped>>

\* The recursive call returned None: del assignment[variable]
BacktrackUndo ==
    /\ pc = "returned"
    /\ assignment' = del(assignment, Top.variable)
    /\ pc' = "loop"
    /\ UNCHANGED <<crossword, domainKeys, domains, entry, arcs, queue,
                   ac3_ret, stack, ret_consistent, outcome,
                   ac3_calls, popped>>

\* main: `if assignment is None`, the test that prints "No solution."
main_no_solution == outcome = "None"

Next ==
    \/ EnforceNodeConsistency
    \/ Ac3CallDefault
    \/ Ac3CallAgain
    \/ Ac3CallArcs
    \/ Ac3Step
    \/ Ac3Return
    \/ BacktrackEnter
    \/ BacktrackOrder
    \/ BacktrackAssign
    \/ BacktrackCheck
    \/ BacktrackExhausted
    \/ BacktrackUndo

Spec == Init /\ [][Next]_vars

\* The program is one thread that runs each call to its end
LiveSpec == Spec /\ WF_vars(Next)

\* A call of ac3() runs its while loop until it returns
Ac3LiveSpec == Spec /\ WF_vars(Ac3Step \/ Ac3Return)

-----------------------------------------------------------------------------
(* consistent(assignment) called on its own, on any assignment of words of *)
(* the word list to some of the variables                                  *)

PartialAssignments(vs, ws) ==
    UNION {[on -> ws] : on \in SUBSET vs}

\* consistent reads the assignment and the structure only, so one iteration
\* order of self.domains stands for all
InitConsistent ==
    \E vs \in Structures, ws \in WordLists :
        /\ crossword = [variables |-> vs, words |-> ws]
        /\ domainKeys = CHOOSE keys \in Perms(vs) : TRUE
        /\ domains = [var \in vs |-> ws]
        /\ entry = "consistent"
        /\ pc = "consistent"
        /\ arcs = NoArcs
        /\ queue = <<>>
        /\ ac3_ret = "pending"
        /\ assignment \in PartialAssignments(vs, ws)
        /\ stack = <<>>
        /\ ret_consistent = "pending"
        /\ outcome = "pending"
        /\ ac3_calls = 0
        /\ popped = NoArc

ConsistentCall ==
    /\ pc = "consistent"
    /\ ret_consistent' = IF consistent(assignment) THEN "True" ELSE "False"
    /\ outcome' = ret_consistent'
    /\ pc' = "done"
    /\ UNCHANGED <<crossword, domainKeys, domains, entry, arcs, queue,
                   ac3_ret, assignment, stack,
                   ac3_calls, popped>>

NextConsistent == ConsistentCall

SpecConsistent == InitConsistent /\ [][NextConsistent]_vars

-----------------------------------------------------------------------------
(* Notions the claims are stated in *)

\* The letters of wx (for x) and wy (for y) at the overlap of x and y agree
Agree(x, wx, y, wy) ==
    wx[Overlaps(x, y)[1] + 1] = wy[Overlaps(x, y)[2] + 1]

Crossing(x, y) == x # y /\ Overlaps(x, y) # NoOverlap

\* asg is complete over the variables and meets every constraint
IsSolution(asg) ==
    /\ DOMAIN asg = crossword.variables
    /\ \A u, v \in DOMAIN asg : u # v => asg[u] # asg[v]
    /\ \A v \in DOMAIN asg : Len(asg[v]) = v.length
    /\ \A u, v \in DOMAIN asg :
            Crossing(u, v) => Agree(u, asg[u], v, asg[v])

\* The complete consistent assignments over the word list
Solutions ==
    {asg \in [crossword.variables -> crossword.words] : IsSolution(asg)}

ScenarioVariables ==
    {Variable(0, 0, ACROSS, 3), Variable(0, 0, DOWN, 3)}

ScenarioA == {<<"c", "a", "t">>, <<"c", "a", "r">>, <<"d", "o", "g">>}

\* The words of the word list that fit variable v
Fitting(v) == {w \in crossword.words : Len(w) = v.length}

\* The frames whose call of order_domain_values has returned
Ordered ==
    {k \in 1..Len(stack) : k < Len(stack) \/ pc # "order"}

-----------------------------------------------------------------------------
(* Claims *)

\* C1: whenever solve() returns an assignment, it has exactly one entry per
\* variable, no two variables share a word, every word has the length of its
\* variable, and neighboring variables agree at their overlap.
C1_SolveSound ==
    (entry = "solve" /\ outcome = "assignment") => IsSolution(assignment)

\* C1 witness: solve() has returned a pairing for the two crossing slots of
\* scenario A.
C1_Witness ==
    /\ entry = "solve"
    /\ outcome = "assignment"
    /\ crossword.variables = ScenarioVariables
    /\ crossword.words = ScenarioA

\* C2: when a complete consistent assignment exists, solve() returns a
\* complete assignment, never None and never an error.
C2_SolveComplete ==
    (entry = "solve" /\ pc = "done" /\ Solutions # {})
        => (outcome = "assignment" /\ DOMAIN assignment = crossword.variables)

\* C3: when no complete consistent assignment exists, solve() returns None;
\* it never raises and never returns an assignment.
C3_UnsatReturnsNone ==
    (entry = "solve" /\ pc = "done" /\ Solutions = {}) => outcome = "None"

RECURSIVE RuledOut(_, _, _, _)
\* Sum, over the neighbors in todo that asg leaves unassigned, of the number
\* of words of the neighbor's domain that disagree with word
RuledOut(word, var, asg, todo) ==
    IF todo = {} THEN 0
    ELSE LET n == CHOOSE n \in todo : TRUE
             rest == RuledOut(word, var, asg, todo \ {n})
         IN  IF n \in DOMAIN asg THEN rest
             ELSE Cardinality({w \in domains[n] : ~Agree(var, word, n, w)})
                    + rest

\* C4: order_domain_values returns the words in ascending order of the
\* number of neighbor values they rule out (fewest first).
C4_LeastConstrainingFirst ==
    \A f \in Ordered :
        LET frame == stack[f]
            score(w) == RuledOut(w, frame.variable, frame.entered,
                                 neighbors(frame.variable))
        IN  \A a, b \in 1..Len(frame.values) :
                a < b => score(frame.values[a]) <= score(frame.values[b])

\* C5: select_unassigned_variable returns an unassigned variable of minimal
\* domain size and, among those, of maximal number of neighbors.
C5_MrvThenDegree ==
    \A f \in 1..Len(stack) :
        LET var == stack[f].variable
            unassigned == crossword.variables \ DOMAIN stack[f].entered
            size(v) == Cardinality(domains[v])
            smallest == {v \in unassigned :
                            \A u \in unassigned : size(v) <= size(u)}
        IN  /\ var \in unassigned
            /\ var \in smallest
            /\ \A u \in smallest :
                    Cardinality(neighbors(u)) <= Cardinality(neighbors(var))

\* Every word of every domain has a partner in each neighbor's domain
ArcConsistent ==
    \A x \in crossword.variables : \A y \in neighbors(x) :
        \A w \in domains[x] : \E w2 \in domains[y] : Agree(x, w, y, w2)

\* C6: if ac3() returns True every word of every domain has an agreeing word
\* in each neighbor's domain; if it returns False some domain is empty.
C6_Ac3Sound ==
    /\ ac3_ret = "True" => ArcConsistent
    /\ ac3_ret = "False" => \E v \in crossword.variables : domains[v] = {}

\* C6 witness: ac3() returned True after removing a word of the right
\* length from the domain of a variable that has a neighbor.
C6_Witness ==
    /\ ac3_ret = "True"
    /\ \E x \in crossword.variables :
            /\ neighbors(x) # {}
            /\ domains[x] # {}
            /\ domains[x] # Fitting(x)

\* C7: ac3() returns True only if no domain is empty when it returns.
C7_TrueMeansNoEmptyDomain ==
    ac3_ret = "True" => \A v \in crossword.variables : domains[v] # {}

\* C8: called with an explicit collection of arcs, ac3 takes exactly those
\* arcs as its initial worklist and returns a boolean.
C8_ExplicitArcs ==
    arcs.given =>
        /\ ac3_ret # "TypeError"
        /\ pc = "ac3_loop" \/ ac3_ret \in {"True", "False"}

\* C9: if ac3() returns False inside solve(), no complete consistent
\* assignment exists and solve() returns None.
C9_Ac3FailureMeansNone ==
    (entry = "solve" /\ ac3_ret = "False") =>
        /\ Solutions = {}
        /\ pc = "done" => outcome = "None"

\* C9 witness: solve() has finished after its ac3() returned False, for a
\* word list that holds words of the right length for every variable.
C9_Witness ==
    /\ entry = "solve"
    /\ ac3_ret = "False"
    /\ pc = "done"
    /\ \A v \in crossword.variables : Fitting(v) # {}

\* C10: consistent(assignment) is True exactly when no two variables of the
\* assignment share a word, every word has the length of its variable, and
\* all assigned neighbors agree at their overlap.
C10_ConsistentIff ==
    (entry = "consistent" /\ pc = "done") =>
        (ret_consistent = "True" <=>
            /\ \A u, v \in DOMAIN assignment :
                    u # v => assignment[u] # assignment[v]
            /\ \A v \in DOMAIN assignment : Len(assignment[v]) = v.length
            /\ \A u, v \in DOMAIN assignment :
                    Crossing(u, v) =>
                        Agree(u, assignment[u], v, assignment[v]))

\* C10 witness: consistent returned False for an assignment whose only
\* fault is a pair of crossing variables that disagree at their overlap.
C10_Witness ==
    /\ entry = "consistent"
    /\ pc = "done"
    /\ ret_consistent = "False"
    /\ \A u, v \in DOMAIN assignment : u # v => assignment[u] # assignment[v]
    /\ \A v \in DOMAIN assignment : Len(assignment[v]) = v.length
    /\ Cardinality(DOMAIN assignment) = 3

\* C11: a call of ac3() made right after a call that returned True removes
\* no word from any domain and does not return False.
C11_Ac3Idempotent ==
    [][(ac3_calls >= 2 /\ pc = "ac3_loop")
         => (domains' = domains /\ ac3_ret' # "False")]_vars

\* C11 witness: the second call of ac3() has returned True, the first one
\* having removed a fitting word from the domain of a crossing variable.
C11_Witness ==
    /\ ac3_calls = 2
    /\ pc = "done"
    /\ ac3_ret = "True"
    /\ \E x \in crossword.variables :
            /\ neighbors(x) # {}
            /\ domains[x] # {}
            /\ domains[x] # Fitting(x)

\* C12: after enforce_node_consistency() the domain of every variable is
\* exactly the set of words of the word list that have its length.
C12_NodeConsistent ==
    pc = "ac3" => \A v \in crossword.variables : domains[v] = Fitting(v)

\* C12 witness: enforce_node_consistency() has returned, having removed
\* some words of a variable's domain and kept others.
C12_Witness ==
    /\ pc = "ac3"
    /\ \E v \in crossword.variables :
            /\ domains[v] # {}
            /\ domains[v] # crossword.words

\* C13: with zero variables solve() returns the empty assignment, which the
\* driver does not take for the no-solution value None.
C13_ZeroVariables ==
    (entry = "solve" /\ pc = "done" /\ crossword.variables = {}) =>
        /\ outcome = "assignment"
        /\ assignment = EmptyAssignment
        /\ ~main_no_solution

\* C13 witness: solve() has returned for a structure without variables and
\* a word list that is not empty.
C13_Witness ==
    /\ entry = "solve"
    /\ pc = "done"
    /\ crossword.variables = {}
    /\ crossword.words # {}

\* C14: when a call backtrack(assignment) returns None the assignment is
\* what it was when the call was entered, and after solve() returned None
\* the assignment is the empty mapping.
C14_UndoOnBacktrack ==
    /\ (pc = "loop" /\ Top.k = Len(Top.values)) => assignment = Top.entered
    /\ (entry = "solve" /\ outcome = "None") => assignment = EmptyAssignment

\* C14 witness: a recursive call of backtrack is about to return None after
\* it tried at least one word.
C14_Witness ==
    /\ pc = "loop"
    /\ Len(stack) >= 2
    /\ Top.k = Len(Top.values)
    /\ Top.k >= 1

\* The words of x's domain that agree with no word of y's domain
Unsupported(x, y) ==
    {w \in domains[x] : ~\E w2 \in domains[y] : Agree(x, w, y, w2)}

\* C15: revise(x, y) without an overlap returns False and changes no domain;
\* with one it removes from x's domain exactly the words no word of y's
\* domain agrees with, returns True iff it removed one, and leaves every
\* other domain as it was.
C15_Revise ==
    [][(pc = "ac3_loop" /\ queue # <<>>) =>
        LET x == Head(queue)[1]
            y == Head(queue)[2]
        IN  IF ~Crossing(x, y)
            THEN domains' = domains /\ popped'.revised = FALSE
            ELSE /\ domains' =
                        [domains EXCEPT ![x] = domains[x] \ Unsupported(x, y)]
                 /\ popped'.revised = (Unsupported(x, y) # {})]_vars

\* C15 witness: revise has just removed a word from the popped arc's first
\* variable and left words in its domain.
C15_Witness ==
    /\ pc = "ac3_loop"
    /\ popped.revised
    /\ domains[popped.arc[1]] # {}

\* The positions of backtrack and of the functions it calls
SearchPcs == {"backtrack", "order", "loop", "check", "returned"}

\* C16: no step adds a word to a domain, and the steps of backtrack,
\* consistent, select_unassigned_variable and order_domain_values leave all
\* domains unchanged.
C16_DomainsOnlyShrink ==
    [][/\ DOMAIN domains' = DOMAIN domains
       /\ \A v \in DOMAIN domains : domains'[v] \subseteq domains[v]
       /\ pc \in SearchPcs => domains' = domains]_vars

\* C16 witness: the search is testing a tentative entry after propagation
\* removed words from a domain.
C16_Witness ==
    /\ pc = "check"
    /\ \E v \in crossword.variables :
            /\ domains[v] # {}
            /\ domains[v] # Fitting(v)

\* asg meets every constraint among the variables it assigns, with words of
\* their domains
Admissible(asg) ==
    /\ \A u, v \in DOMAIN asg : u # v => asg[u] # asg[v]
    /\ \A v \in DOMAIN asg : Len(asg[v]) = v.length
    /\ \A u, v \in DOMAIN asg :
            Crossing(u, v) => Agree(u, asg[u], v, asg[v])
    /\ \A v \in DOMAIN asg : asg[v] \in domains[v]

\* C17: every call of backtrack, top-level or recursive, receives an
\* assignment that is consistent and takes each word from its variable's
\* domain; an entry that fails consistent is never passed on.
C17_CallsGetAdmissible ==
    /\ pc = "backtrack" => Admissible(assignment)
    /\ \A f \in 1..Len(stack) : Admissible(stack[f].entered)

\* C17 witness: a recursive call of backtrack is entered with two words
\* assigned while a third variable is still open.
C17_Witness ==
    /\ pc = "backtrack"
    /\ Cardinality(DOMAIN assignment) = 2
    /\ Cardinality(crossword.variables) = 3

\* C18: after popping (x, y), ac3 returns False at once if revise returned
\* True and x's domain is empty; appends exactly the arcs (z, x), z a
\* neighbor of x other than y, to the back of the queue if revise returned
\* True and the domain is not empty; and appends nothing otherwise.
C18_WorklistStep ==
    [][(pc = "ac3_loop" /\ queue # <<>>) =>
        LET x == Head(queue)[1]
            y == Head(queue)[2]
            kept == Len(queue) - 1
            added == SubSeq(queue', kept + 1, Len(queue'))
            expected == {<<z, x>> : z \in neighbors(x) \ {y}}
        IN  IF popped'.revised /\ domains'[x] = {}
            THEN ac3_ret' = "False" /\ pc' # "ac3_loop"
            ELSE /\ pc' = "ac3_loop"
                 /\ ac3_ret' = ac3_ret
                 /\ Len(queue') >= kept
                 /\ SubSeq(queue', 1, kept) = Tail(queue)
                 /\ IF popped'.revised
                    THEN /\ {added[k] : k \in 1..Len(added)} = expected
                         /\ Len(added) = Cardinality(expected)
                    ELSE added = <<>>]_vars

\* C18 witness: the last pass of the loop revised x, left words in its
\* domain and appended an arc for a neighbor of x other than y.
C18_Witness ==
    /\ pc = "ac3_loop"
    /\ popped.revised
    /\ neighbors(popped.arc[1]) \ {popped.arc[2]} # {}
    /\ queue # <<>>
    /\ queue[Len(queue)][2] = popped.arc[1]

\* C19: ac3() terminates: once in its loop it leaves it (the queue is empty
\* or a domain is), and every pass that appends an arc to the queue has
\* removed a word from a domain.
C19_Ac3Terminates ==
    /\ (pc = "ac3_loop") ~> (pc # "ac3_loop")
    /\ [][(pc = "ac3_loop" /\ queue # <<>> /\ Len(queue') >= Len(queue)) =>
            \E v \in DOMAIN domains :
                /\ domains'[v] \subseteq domains[v]
                /\ domains'[v] # domains[v]]_vars

\* C19 witness: ac3() has returned True after a pass of its loop put an arc
\* back on the queue.
C19_Witness ==
    /\ ac3_ret = "True"
    /\ popped.arc # <<>>
    /\ \E v \in crossword.variables :
            /\ Cardinality(neighbors(v)) >= 2
            /\ domains[v] # {}
            /\ domains[v] # Fitting(v)

\* C20: backtrack(empty assignment) terminates; its only outcomes are a
\* complete assignment or None; and the recursion is never deeper than the
\* number of variables.
C20_BacktrackTerminates ==
    /\ (pc = "backtrack" /\ stack = <<>>) ~> (pc = "done")
    /\ [](pc = "done" /\ entry = "solve" =>
            \/ outcome = "assignment" /\ assignment_complete(assignment)
            \/ outcome = "None")
    /\ [](Len(stack) <= Cardinality(crossword.variables))

\* C21: propagation preserves solutions: for every complete consistent
\* assignment A over the word list and every variable v, the word A[v] is in
\* domain[v] before, during and after enforce_node_consistency() and ac3().
C21_PropagationKeepsSolutions ==
    \A A \in Solutions : \A v \in crossword.variables : A[v] \in domains[v]

\* C21 witness: ac3() has returned after removing a fitting word from the
\* domain of a crossing variable of a structure that has a solution.
C21_Witness ==
    /\ ac3_ret = "True"
    /\ Solutions # {}
    /\ \E x \in crossword.variables :
            /\ neighbors(x) # {}
            /\ domains[x] # Fitting(x)

\* C22: the list order_domain_values(var, assignment) returns holds every
\* word of domain[var] exactly once and no other word, and the word backtrack
\* is trying for var is the k-th word of that list.
C22_OrderIsPermutation ==
    /\ \A f \in Ordered :
            LET frame == stack[f]
            IN  frame.variable \in DOMAIN domains =>
                    /\ {frame.values[k] : k \in 1..Len(frame.values)}
                            = domains[frame.variable]
                    /\ Len(frame.values)
                            = Cardinality(domains[frame.variable])
                    /\ frame.k \in 0..Len(frame.values)
    /\ pc \in {"check", "returned"} =>
            /\ Top.variable \in DOMAIN assignment
            /\ assignment[Top.variable] = Top.values[Top.k]

\* C22 witness: backtrack has moved on to a later word of the list, whose
\* count differs from the first word's, for a variable with an open neighbor.
C22_Witness ==
    /\ pc = "check"
    /\ Top.k >= 2
    /\ neighbors(Top.variable) \ DOMAIN Top.entered # {}
    /\ eliminations(Top.values[1], Top.variable, Top.entered,
                     neighbors(Top.variable))
        # eliminations(Top.values[Top.k], Top.variable, Top.entered,
                       neighbors(Top.variable))

====
